---- MODULE Spec2Model ----
(***************************************************************************)
(* Model of retentioneering.core.base_classes.base_trajectory:             *)
(* BaseTrajectory.get_shift, get_edgelist, get_adjacency, get_step_matrix  *)
(* (with _add_accums and _sort_matrix) and split_sessions.                 *)
(*                                                                         *)
(* The accessor wraps an event log (a DataFrame) and a retention_config.   *)
(* Every method is a pure function of the log, the configuration and its   *)
(* keyword arguments: a behaviour draws the log and the configuration in   *)
(* its initial state and then performs one call, whose arguments are       *)
(* drawn from small sets and whose outcome is stored in `result`.          *)
(*                                                                         *)
(* Numbers: pandas computes shares as floats; the model computes them as   *)
(* exact fractions [num, den]; a fraction with den = 0 stands for NaN      *)
(* (the outcome of 0/0 on a float column).                                 *)
(***************************************************************************)
EXTENDS Integers, Sequences, FiniteSets, TLC

VARIABLES
    log,                \* self._obj: the rows of the event log, in row order
    retention_config,   \* self.retention_config
    call,               \* the method called and its keyword arguments
    result              \* what the call returned or raised

vars == <<log, retention_config, call, result>>

----------------------------------------------------------------------------
\* Bounds of the model

\* longest log given to get_edgelist / get_adjacency
MaxRowsEdge == 3

\* longest log given to get_step_matrix
MaxRowsStep == 3

\* longest log given to get_step_matrix when the timestamps vary
MaxRowsRank == 2

\* longest log given to split_sessions
MaxRowsSess == 3

\* values of the entity column (user_pseudo_id)
Users == {1, 2}

\* event timestamps, in seconds
EdgeTimes == {1, 2}

\* event names of the logs given to get_edgelist / get_adjacency
EdgeEvents == {"A", "B", "C"}

\* Python's None
NONE == "None"

\* the null timestamp that shift() leaves in an entity's last row
NaT == -1

Row(u, e, t) == [user |-> u, event |-> e, ts |-> t]

\* a raised ValueError and the event its message names, if any
ValueError(about) == [raised |-> "ValueError", message_names |-> about]

Range(seq) == {seq[k] : k \in DOMAIN seq}

Max(S) == CHOOSE x \in S : \A y \in S : y <= x

\* every log of 1..n rows over the given events and timestamps
Logs(events, times, n) ==
    UNION {[1..k -> {Row(u, e, t) : u \in Users, e \in events, t \in times}] : k \in 1..n}

----------------------------------------------------------------------------
\* Exact fractions

RECURSIVE GCD(_, _)
GCD(a, b) == IF b = 0 THEN a ELSE GCD(b, a % b)

Frac(n, d) == [num |-> n, den |-> d]

IsNaN(x) == x.den = 0

\* a fraction in lowest terms (a NaN stays a NaN)
Reduce(x) ==
    IF x.den = 0 THEN Frac(0, 0)
    ELSE LET g == GCD(x.num, x.den) IN Frac(x.num \div g, x.den \div g)

FracAdd(x, y) ==
    IF x.den = 0 \/ y.den = 0 THEN Frac(0, 0)
    ELSE Reduce(Frac(x.num * y.den + y.num * x.den, x.den * y.den))

\* x / y; a zero divisor gives NaN (x is never negative or non-zero over zero here
\* without the column being zero itself, see Normalize)
FracDiv(x, y) ==
    IF x.den = 0 \/ y.den = 0 \/ y.num = 0 THEN Frac(0, 0)
    ELSE Reduce(Frac(x.num * y.den, x.den * y.num))

FracEq(x, y) == x.den # 0 /\ y.den # 0 /\ x.num * y.den = y.num * x.den

\* comparisons with NaN are false, as in IEEE arithmetic
FracLeq(x, y) == x.den # 0 /\ y.den # 0 /\ x.num * y.den <= y.num * x.den

FracGeq(x, y) == FracLeq(y, x)

FracLess(x, y) == x.den # 0 /\ y.den # 0 /\ x.num * y.den < y.num * x.den

One == Frac(1, 1)

Zero == Frac(0, 1)

\* sum of f[k] over a finite set of keys, NaN skipped as Series.sum() does
RECURSIVE FracSum(_, _)
FracSum(f, keys) ==
    IF keys = {} THEN Zero
    ELSE LET k == CHOOSE x \in keys : TRUE
         IN FracAdd(IF IsNaN(f[k]) THEN Zero ELSE f[k], FracSum(f, keys \ {k}))

----------------------------------------------------------------------------
\* get_shift

\* row i comes before row j in sort_values([index_col, time_col]); a sort on
\* several columns is a stable lexsort, so ties stay in row order
SortsBefore(obj, i, j) ==
    \/ obj[i].user < obj[j].user
    \/ obj[i].user = obj[j].user /\ obj[i].ts < obj[j].ts
    \/ obj[i].user = obj[j].user /\ obj[i].ts = obj[j].ts /\ i < j

\* the index labels of obj in sorted order
SortValues(obj) ==
    LET n == Len(obj)
        pos(i) == 1 + Cardinality({j \in 1..n : SortsBefore(obj, j, i)})
    IN [k \in 1..n |-> CHOOSE i \in 1..n : pos(i) = k]

\* the log sorted by (entity, time), each row with the event and timestamp of
\* the next row of its entity; idx is the row's index label in the log
get_shift(obj) ==
    LET order == SortValues(obj)
        n == Len(obj)
    IN [k \in 1..n |->
          LET i == order[k]
              hasNext == k < n /\ obj[order[IF k < n THEN k + 1 ELSE k]].user = obj[i].user
          IN [idx |-> i, user |-> obj[i].user, event |-> obj[i].event, ts |-> obj[i].ts,
              next_event |-> IF hasNext THEN obj[order[k + 1]].event ELSE NONE,
              next_ts |-> IF hasNext THEN obj[order[k + 1]].ts ELSE NaT]]

----------------------------------------------------------------------------
\* get_edgelist

\* the value of column col in a row of the shifted log
ColValue(r, col) == IF col = "user_pseudo_id" THEN r.user ELSE r.event

\* the groups of groupby([event_col, 'next_' + event_col]): a null key drops the row
EdgeGroups(data) ==
    {<<data[k].event, data[k].next_event>> : k \in {j \in DOMAIN data : data[j].next_event # NONE}}

\* rows of the shifted log in group g
GroupRows(data, g) ==
    {k \in DOMAIN data : data[k].event = g[1] /\ data[k].next_event = g[2]}

\* .count() of the group when weight_col is None, .nunique() of weight_col otherwise
EdgeAggregate(data, weight_col) ==
    [g \in EdgeGroups(data) |->
        IF weight_col = NONE THEN Cardinality(GroupRows(data, g))
        ELSE Cardinality({ColValue(data[k], weight_col) : k \in GroupRows(data, g)})]

\* FullDivisor dividing by the number of rows of the shifted log instead of the
\* number of transitions
FullDivisor_RowCount(data, agg, weight_col) ==
    IF weight_col = NONE
    THEN Len(data)
    ELSE Cardinality({ColValue(data[k], weight_col) : k \in DOMAIN data})

\* the divisor of norm_type 'full'
FullDivisor(data, agg, weight_col) ==
    IF weight_col = NONE
    THEN FracSum([g \in DOMAIN agg |-> Frac(agg[g], 1)], DOMAIN agg).num
    ELSE Cardinality({ColValue(data[k], weight_col) : k \in DOMAIN data})

\* NodeDivisor counting every occurrence of the source event, also an entity's
\* last one, which starts no transition
NodeDivisor_AllOccurrences(data, source, weight_col) ==
    IF weight_col = NONE
    THEN Cardinality({k \in DOMAIN data : data[k].event = source})
    ELSE Cardinality({ColValue(data[k], weight_col) : k \in {j \in DOMAIN data : data[j].event = source}})

\* the divisor of norm_type 'node' for the edges leaving source
NodeDivisor(data, source, weight_col) ==
    IF weight_col = NONE
    THEN Cardinality({k \in DOMAIN data : data[k].event = source /\ data[k].next_event # NONE})
    ELSE Cardinality({ColValue(data[k], weight_col) : k \in {j \in DOMAIN data : data[j].event = source}})

\* the returned table: a weight for every (source, target) observed
get_edgelist(obj, weight_col, norm_type) ==
    LET data == get_shift(obj)
        agg == EdgeAggregate(data, weight_col)
    IN [g \in DOMAIN agg |->
          IF norm_type = "full" THEN FracDiv(Frac(agg[g], 1), Frac(FullDivisor(data, agg, weight_col), 1))
          ELSE IF norm_type = "node" THEN FracDiv(Frac(agg[g], 1), Frac(NodeDivisor(data, g[1], weight_col), 1))
          ELSE Frac(agg[g], 1)]

----------------------------------------------------------------------------
\* get_adjacency

\* the nodes of the DiGraph built by add_weighted_edges_from
GraphNodes(edges) == {g[1] : g \in DOMAIN edges} \cup {g[2] : g \in DOMAIN edges}

\* nx.to_pandas_adjacency: rows and columns are the nodes of the graph
get_adjacency(obj, weight_col, norm_type) ==
    LET edges == get_edgelist(obj, weight_col, norm_type)
        nodes == GraphNodes(edges)
    IN [index |-> nodes, columns |-> nodes,
        val |-> [s \in nodes |-> [t \in nodes |->
                    IF <<s, t>> \in DOMAIN edges THEN edges[<<s, t>>] ELSE Zero]]]

----------------------------------------------------------------------------
\* get_step_matrix

\* event names of the logs given to get_step_matrix: P and N are the configured
\* positive and negative target events
StepEvents == {"A", "N", "P"}

\* get_step_matrix never reads the timestamps: the logs of SpecStep hold one
\* timestamp, those of SpecStepTimed two, so that rows can be out of time order
StepTimes == {1}

RankTimes == {1, 2}

\* the event names in the order a sorted index holds them
EventOrder == <<"A", "N", "P">>

\* the name of a row of the step matrix: an event name, or 'Accumulated ' + it
EventRow(e) == [accumulated |-> FALSE, name |-> e]

AccumulatedRow(e) == [accumulated |-> TRUE, name |-> e]

\* data['event_rank'] = 1; groupby(weight_col).cumsum(): the count of the rows of
\* the same entity up to the row, in the row order of the log
event_rank(obj) ==
    [i \in DOMAIN obj |-> Cardinality({j \in 1..i : obj[j].user = obj[i].user})]

\* ReverseTargets with the two keys of the lookup exchanged: 'pos' selects the
\* negative target event and 'neg' the positive one
ReverseTargets_Swapped(cfg, reverse) ==
    [k \in DOMAIN reverse |->
        IF reverse[k] = "pos" THEN cfg.negative_target_event ELSE cfg.positive_target_event]

\* the target events selected by reverse ('pos' is taken as ['pos'])
ReverseTargets(cfg, reverse) ==
    [k \in DOMAIN reverse |->
        IF reverse[k] = "pos" THEN cfg.positive_target_event ELSE cfg.negative_target_event]

\* data['convpoint']: target rows seen so far for the entity, the row's own excluded
convpoint(obj, targets) ==
    [i \in DOMAIN obj |->
        Cardinality({j \in 1..i : obj[j].user = obj[i].user /\ obj[j].event \in targets})
        - (IF obj[i].event \in targets THEN 1 ELSE 0)]

\* the rows of the group of groupby([weight_col, 'convpoint']) that holds row i
ConvGroup(obj, targets, i) ==
    LET cp == convpoint(obj, targets)
    IN {j \in DOMAIN obj : obj[j].user = obj[i].user /\ cp[j] = cp[i]}

\* x.max() - x + 1 within the group
ReverseRank(obj, targets) ==
    LET rk == event_rank(obj)
    IN [i \in DOMAIN obj |-> Max({rk[j] : j \in ConvGroup(obj, targets, i)}) - rk[i] + 1]

\* data['non-detriment']: the group's last row is a target event
NonDetriment(obj, targets) ==
    [i \in DOMAIN obj |-> obj[Max(ConvGroup(obj, targets, i))].event \in targets]

\* the rows kept and their ranks: all rows in forward mode, the non-detriment
\* rows re-ranked from the target backwards in reverse mode
StepData(obj, cfg, reverse) ==
    IF reverse = <<>>
    THEN [rows |-> DOMAIN obj, rank |-> event_rank(obj)]
    ELSE LET targets == Range(ReverseTargets(cfg, reverse))
             nd == NonDetriment(obj, targets)
         IN [rows |-> {i \in DOMAIN obj : nd[i]}, rank |-> ReverseRank(obj, targets)]

\* a column label: the rank itself in forward mode; 'n' and 'n - k' in reverse mode
RankLabel(r) == [text |-> "", k |-> r]

ReverseLabel(text, k) == [text |-> text, k |-> k]

\* the sequence of the members of order that are in S
Sorted(order, S) == SelectSeq(order, LAMBDA x : x \in S)

SortedRanks(S) == Sorted([k \in 1..(IF S = {} THEN 0 ELSE Max(S)) |-> k], S)

\* groupby(['event_rank', event_col])[weight_col].nunique() / data[weight_col].nunique(),
\* cut at max_steps and pivoted: rows are the events, columns the ranks, 0 where
\* the pair does not occur
Pivot(obj, data, max_steps) ==
    LET kept == {i \in data.rows : max_steps = 0 \/ data.rank[i] <= max_steps}
        total == Cardinality({obj[i].user : i \in data.rows})
        cols == SortedRanks({data.rank[i] : i \in kept})
        events == Sorted(EventOrder, {obj[i].event : i \in kept})
        freq(e, r) == Cardinality({obj[i].user : i \in {j \in kept : obj[j].event = e /\ data.rank[j] = r}})
    IN [index |-> [k \in DOMAIN events |-> EventRow(events[k])],
        columns |-> [c \in DOMAIN cols |-> RankLabel(cols[c])],
        val |-> [row \in {EventRow(events[k]) : k \in DOMAIN events} |->
                    [c \in DOMAIN cols |-> Frac(freq(row.name, cols[c]), total)]]]

\* the sum of the first n members of a sequence of fractions
RECURSIVE CumSum(_, _)
CumSum(seq, n) == IF n = 0 THEN Zero ELSE FracAdd(CumSum(seq, n - 1), seq[n])

\* _add_accums with the cumulative sum left out: the target's row moved one
\* column to the right
_add_accums_NoCumSum(agg, name) ==
    IF EventRow(name) \notin Range(agg.index)
    THEN [c \in DOMAIN agg.columns |-> Zero]
    ELSE [c \in DOMAIN agg.columns |-> IF c = 1 THEN Zero ELSE agg.val[EventRow(name)][c - 1]]

\* the row 'Accumulated ' + name: zeros when the event has no row, otherwise
\* cumsum().shift(1).fillna(0) of its row
_add_accums(agg, name) ==
    IF EventRow(name) \notin Range(agg.index)
    THEN [c \in DOMAIN agg.columns |-> Zero]
    ELSE [c \in DOMAIN agg.columns |-> CumSum(agg.val[EventRow(name)], c - 1)]

\* piv.append(series): a row added below
AppendRow(piv, rowname, values) ==
    [index |-> Append(piv.index, rowname),
     columns |-> piv.columns,
     val |-> [row \in DOMAIN piv.val \cup {rowname} |->
                 IF row = rowname THEN values ELSE piv.val[row]]]

\* for i in target_event_list: piv = piv.append(_add_accums(piv, i)), the first n targets
RECURSIVE WithAccums(_, _, _)
WithAccums(piv, target_event_list, n) ==
    IF n = 0 THEN piv
    ELSE LET before == WithAccums(piv, target_event_list, n - 1)
         IN AppendRow(before, AccumulatedRow(target_event_list[n]),
                      _add_accums(before, target_event_list[n]))

\* the rows with these names only, in the matrix's order
SelectRows(piv, keep) ==
    [index |-> SelectSeq(piv.index, LAMBDA row : row \in keep),
     columns |-> piv.columns,
     val |-> [row \in keep |-> piv.val[row]]]

\* thr != 0: a row stays if one of its values is >= thr, if it is an accumulated
\* row, or if its event is in target_event_list
Prune(piv, thr, target_event_list) ==
    IF thr.num = 0 THEN piv
    ELSE SelectRows(piv,
            {row \in Range(piv.index) :
                \/ row.accumulated
                \/ row.name \in Range(target_event_list)
                \/ \E c \in DOMAIN piv.columns : FracGeq(piv.val[row][c], thr)})

\* x[i].idxmax(): the first of the rows, in their order, with the column's largest value
IdxMax(piv, rows, c) ==
    LET best(k) == \A j \in DOMAIN rows : FracLeq(piv.val[rows[j]][c], piv.val[rows[k]][c])
        first == CHOOSE k \in DOMAIN rows : best(k) /\ \A j \in 1..(k - 1) : ~best(j)
    IN rows[first]

\* the loop of _sort_matrix from column c on: rows is what is left of x
RECURSIVE SortLoop(_, _, _)
SortLoop(piv, rows, c) ==
    IF c > Len(piv.columns) \/ rows = <<>> THEN <<>>
    ELSE LET new_r == IdxMax(piv, rows, c)
         IN <<new_r>> \o SortLoop(piv, SelectSeq(rows, LAMBDA row : row # new_r), c + 1)

\* every sequence that lists the members of S once
RECURSIVE Orderings(_)
Orderings(S) ==
    IF S = {} THEN {<<>>}
    ELSE UNION {{<<x>> \o o : o \in Orderings(S \ {x})} : x \in S}

\* _sort_matrix: the orders step_matrix.loc[order] may have; the rows that the
\* loop did not reach follow in the iteration order of a set, which is any order
_sort_matrix(piv) ==
    LET order == SortLoop(piv, piv.index, 1)
        rest == Range(piv.index) \ Range(order)
    IN {[index |-> order \o tail, columns |-> piv.columns, val |-> piv.val] : tail \in Orderings(rest)}

\* piv.columns = ['n'] + ['n - {}'.format(int(i) - 1) for i in piv.columns[1:]]
ReverseLabels(piv) ==
    [index |-> piv.index,
     columns |-> [c \in DOMAIN piv.columns |->
                    IF c = 1 THEN ReverseLabel("n", 0) ELSE ReverseLabel("n - ", piv.columns[c].k - 1)],
     val |-> piv.val]

\* the sum of column c
ColumnSum(piv, c) == FracSum([row \in DOMAIN piv.val |-> piv.val[row][c]], DOMAIN piv.val)

\* piv[indices] = piv[indices] / piv[indices].sum(), for every column
Normalize(piv) ==
    [index |-> piv.index,
     columns |-> piv.columns,
     val |-> [row \in DOMAIN piv.val |->
                 [c \in DOMAIN piv.columns |-> FracDiv(piv.val[row][c], ColumnSum(piv, c))]]]

\* the matrix before sorting: pivot, accumulated rows (forward mode), pruning
Assembled(obj, cfg, max_steps, reverse, thr) ==
    LET piv == Pivot(obj, StepData(obj, cfg, reverse), max_steps)
        acc == IF reverse = <<>>
               THEN WithAccums(piv, cfg.target_event_list, Len(cfg.target_event_list))
               ELSE piv
    IN Prune(acc, thr, cfg.target_event_list)

\* the outcomes of get_step_matrix (plot_type = False, no kwargs): the error
\* raised, or the matrix returned in one of the row orders _sort_matrix may give
get_step_matrix(obj, cfg, max_steps, reverse, sorting, thr) ==
    IF reverse # <<>> /\ StepData(obj, cfg, reverse).rows = {}
    THEN {ValueError(ReverseTargets(cfg, reverse)[1])}
    ELSE LET piv == Assembled(obj, cfg, max_steps, reverse, thr)
         IN IF sorting /\ piv.index = <<>>
            THEN {ValueError(NONE)}   \* idxmax of an empty column
            ELSE {[raised |-> NONE,
                   value |-> Normalize(IF reverse # <<>> THEN ReverseLabels(sorted) ELSE sorted)] :
                     sorted \in IF sorting THEN _sort_matrix(piv) ELSE {piv}}

----------------------------------------------------------------------------
\* split_sessions

\* event names of the logs given to split_sessions: B is the marker passed as
\* by_event, "end" the name passed as eos_event
SessEvents == {"A", "B", "end"}

\* timestamps in seconds: gaps of 1, 2 and 3 seconds
SessTimes == {0, 1, 3}

\* thresh = None
NoThresh == -1

\* res[index_col].map(str) + '_' + res[hash('session')]
SessionId(user, ordinal) == <<user, "_", ordinal>>

\* the index labels of the rows of res: the log without the rows whose event is
\* eos_event, when one is given
ResLabels(obj, eos_event) ==
    {i \in DOMAIN obj : eos_event = NONE \/ obj[i].event # eos_event}

\* eos_mask, by index label: the time to the entity's next event in the shifted
\* (sorted, unfiltered) log is greater than thresh; a null difference is not
EosMask(obj, thresh) ==
    LET df == get_shift(obj)
    IN [i \in DOMAIN obj |->
          LET r == df[CHOOSE k \in DOMAIN df : df[k].idx = i]
          IN r.next_ts # NaT /\ r.next_ts - r.ts > thresh]

\* groupby(index_col).cumsum() then groupby(index_col).shift(1).fillna(0) of the
\* mask, both in the row order of res: the masked rows of the entity above the row
GapOrdinal(obj, thresh, eos_event) ==
    LET mask == EosMask(obj, thresh)
        keep == ResLabels(obj, eos_event)
    IN [i \in keep |->
          Cardinality({j \in keep : j < i /\ obj[j].user = obj[i].user /\ mask[j]})]

\* MarkerOrdinal leaving the row's own mark out, so that a marker row closes its
\* session instead of opening the next
MarkerOrdinal_Exclusive(obj, by_event) ==
    [i \in DOMAIN obj |->
        Cardinality({j \in 1..(i - 1) : obj[j].user = obj[i].user /\ obj[j].event = by_event})]

\* groupby(index_col).cumsum() of (event == by_event), in the row order of the log
MarkerOrdinal(obj, by_event) ==
    [i \in DOMAIN obj |->
        Cardinality({j \in 1..i : obj[j].user = obj[i].user /\ obj[j].event = by_event})]

SessionRow(r, event, ts, ordinal) ==
    [user |-> r.user, event |-> event, ts |-> ts, session_id |-> SessionId(r.user, ordinal)]

\* the sequence of f[i] for the members i of the set of labels S, ascending
RECURSIVE RowsOf(_, _)
RowsOf(f, S) ==
    IF S = {} THEN <<>>
    ELSE LET i == Max(S) IN Append(RowsOf(f, S \ {i}), f[i])

\* sort_values(time_col): a sort on one column is numpy's quicksort, which is
\* not stable, so rows of equal timestamp come in any order. positions is a set
\* of positions of rows
RECURSIVE SortedByTime(_, _)
SortedByTime(rows, positions) ==
    IF positions = {} THEN {<<>>}
    ELSE UNION {{<<rows[k]>> \o rest : rest \in SortedByTime(rows, positions \ {k})} :
                  k \in {j \in positions : \A m \in positions : rows[j].ts <= rows[m].ts}}

\* by_event is None: sessions split where the gap to the next event exceeds thresh
GapSessions(obj, thresh, eos_event) ==
    LET ordinal == GapOrdinal(obj, thresh, eos_event)
        mask == EosMask(obj, thresh)
        keep == ResLabels(obj, eos_event)
        res == RowsOf([i \in keep |-> SessionRow(obj[i], obj[i].event, obj[i].ts, ordinal[i])], keep)
        masked == {i \in keep : mask[i]}
        tmp == RowsOf([i \in masked |-> SessionRow(obj[i], eos_event, obj[i].ts + 1, ordinal[i])], masked)
    IN IF eos_event = NONE THEN {res}
       ELSE SortedByTime(res \o tmp, DOMAIN (res \o tmp))

\* by_event is given: a session starts at every row whose event is by_event
MarkerSessions(obj, by_event) ==
    LET ordinal == MarkerOrdinal(obj, by_event)
    IN [i \in DOMAIN obj |-> SessionRow(obj[i], obj[i].event, obj[i].ts, ordinal[i])]

\* the outcomes of split_sessions: the error raised or the table returned
split_sessions(obj, by_event, thresh, eos_event) ==
    IF by_event = NONE /\ thresh = NoThresh
    THEN {ValueError(NONE)}
    ELSE IF by_event = NONE
    THEN {[raised |-> NONE, value |-> t] : t \in GapSessions(obj, thresh, eos_event)}
    ELSE {[raised |-> NONE, value |-> MarkerSessions(obj, by_event)]}

----------------------------------------------------------------------------
\* The calls

Idle == [op |-> "idle"]

NormTypes == {NONE, "full", "node", "other"}

WeightCols == {NONE, "user_pseudo_id"}

DefaultConfig == [target_event_list |-> <<>>, positive_target_event |-> "P", negative_target_event |-> "N"]

InitEdge ==
    /\ log \in Logs(EdgeEvents, EdgeTimes, MaxRowsEdge)
    /\ retention_config = DefaultConfig
    /\ call = Idle
    /\ result = [raised |-> NONE]

CallGetEdgelist ==
    /\ call.op = "idle"
    /\ \E w \in WeightCols, nt \in NormTypes :
        /\ call' = [op |-> "get_edgelist", weight_col |-> w, norm_type |-> nt]
        /\ result' = IF nt \notin {NONE, "full", "node"}
                     THEN [raised |-> "ValueError"]
                     ELSE [raised |-> NONE, value |-> get_edgelist(log, w, nt)]
    /\ UNCHANGED <<log, retention_config>>

CallGetAdjacency ==
    /\ call.op = "idle"
    /\ \E w \in WeightCols, nt \in NormTypes :
        /\ call' = [op |-> "get_adjacency", weight_col |-> w, norm_type |-> nt]
        /\ result' = IF nt \notin {NONE, "full", "node"}
                     THEN [raised |-> "ValueError"]
                     ELSE [raised |-> NONE, value |-> get_adjacency(log, w, nt)]
    /\ UNCHANGED <<log, retention_config>>

NextEdge == CallGetEdgelist \/ CallGetAdjacency

SpecEdge == InitEdge /\ [][NextEdge]_vars

----------------------------------------------------------------------------
\* The calls of get_step_matrix

MaxStepsArgs == {0, 2}

ReverseArgs == {<<>>, <<"pos">>, <<"neg">>, <<"pos", "neg">>}

ThrArgs == {Frac(0, 1), Frac(3, 5)}

TargetEventLists == {<<>>, <<"A">>, <<"P", "N">>}

InitStep ==
    /\ log \in Logs(StepEvents, StepTimes, MaxRowsStep)
    /\ retention_config \in {[DefaultConfig EXCEPT !.target_event_list = t] : t \in TargetEventLists}
    /\ call = Idle
    /\ result = [raised |-> NONE]

CallGetStepMatrix ==
    /\ call.op = "idle"
    /\ \E ms \in MaxStepsArgs, rev \in ReverseArgs, srt \in BOOLEAN, thr \in ThrArgs :
        /\ call' = [op |-> "get_step_matrix", max_steps |-> ms, reverse |-> rev,
                    sorting |-> srt, thr |-> thr]
        /\ result' \in get_step_matrix(log, retention_config, ms, rev, srt, thr)
    /\ UNCHANGED <<log, retention_config>>

NextStep == CallGetStepMatrix

SpecStep == InitStep /\ [][NextStep]_vars

InitStepTimed ==
    /\ log \in Logs(StepEvents, RankTimes, MaxRowsRank)
    /\ retention_config \in {[DefaultConfig EXCEPT !.target_event_list = t] : t \in TargetEventLists}
    /\ call = Idle
    /\ result = [raised |-> NONE]

SpecStepTimed == InitStepTimed /\ [][NextStep]_vars

----------------------------------------------------------------------------
\* The calls of split_sessions

ByEventArgs == {NONE, "B"}

ThreshArgs == {NoThresh, 1, 2}

EosEventArgs == {NONE, "end"}

InitSess ==
    /\ log \in Logs(SessEvents, SessTimes, MaxRowsSess)
    /\ retention_config = DefaultConfig
    /\ call = Idle
    /\ result = [raised |-> NONE]

CallSplitSessions ==
    /\ call.op = "idle"
    /\ \E by \in ByEventArgs, th \in ThreshArgs, eos \in EosEventArgs :
        /\ call' = [op |-> "split_sessions", by_event |-> by, thresh |-> th, eos_event |-> eos]
        /\ result' \in split_sessions(log, by, th, eos)
    /\ UNCHANGED <<log, retention_config>>

NextSess == CallSplitSessions

SpecSess == InitSess /\ [][NextSess]_vars

\* the calls of split_sessions that name a marker event (the else branch)
CallSplitSessionsByEvent ==
    /\ call.op = "idle"
    /\ \E by \in ByEventArgs \ {NONE}, th \in ThreshArgs, eos \in EosEventArgs :
        /\ call' = [op |-> "split_sessions", by_event |-> by, thresh |-> th, eos_event |-> eos]
        /\ result' \in split_sessions(log, by, th, eos)
    /\ UNCHANGED <<log, retention_config>>

NextMarker == CallSplitSessionsByEvent

SpecMarker == InitSess /\ [][NextMarker]_vars

----------------------------------------------------------------------------
\* Claims about get_edgelist and get_adjacency (checked under SpecEdge)

Returned(op) == call.op = op /\ result.raised = NONE

\* the distinct event names of the log
DistinctEvents == {log[i].event : i \in DOMAIN log}

EdgeSum(edges, keys) == FracSum(edges, keys)

\* a weight is a share: greater than 0 and at most 1
IsShare(w) == ~IsNaN(w) /\ w.num > 0 /\ FracLeq(w, One)

\* C3 as stated: with norm_type = 'full' the weights of a non-empty edge list sum
\* to 1, whether weight_col is None or names a column.
C3_FullSumsToOne_AnyWeightCol ==
    (Returned("get_edgelist") /\ call.norm_type = "full" /\ DOMAIN result.value # {})
        => FracEq(EdgeSum(result.value, DOMAIN result.value), One)

\* C3 amended: with norm_type = 'full' and weight_col = None the weights of a
\* non-empty edge list sum to 1; with weight_col naming a column every weight is
\* the share of the log's distinct weight_col values seen on that transition, a
\* number in (0, 1], and the sum need not be 1.
C3_FullNormalization ==
    (Returned("get_edgelist") /\ call.norm_type = "full") =>
        /\ (call.weight_col = NONE /\ DOMAIN result.value # {})
              => FracEq(EdgeSum(result.value, DOMAIN result.value), One)
        /\ call.weight_col # NONE => \A g \in DOMAIN result.value : IsShare(result.value[g])

\* C3 witness: a 'full' edge list by occurrence counts with two or more edges,
\* from a log in which some entity's last event starts no transition.
C3_Witness ==
    /\ Returned("get_edgelist") /\ call.norm_type = "full" /\ call.weight_col = NONE
    /\ \E g, h \in DOMAIN result.value : g # h

\* the edges leaving source s
OutEdges(edges, s) == {g \in DOMAIN edges : g[1] = s}

\* C4 as stated: with norm_type = 'node' the weights of the edges leaving any
\* source of the output sum to 1, whether weight_col is None or names a column.
C4_NodeSumsToOne_AnyWeightCol ==
    (Returned("get_edgelist") /\ call.norm_type = "node") =>
        \A g \in DOMAIN result.value :
            FracEq(EdgeSum(result.value, OutEdges(result.value, g[1])), One)

\* C4 amended: with norm_type = 'node' and weight_col = None the weights of the
\* edges leaving any source of the output sum to 1; with weight_col naming a
\* column every weight is a share in (0, 1] of the distinct weight_col values
\* seen at the source, and the sum per source need not be 1.
C4_NodeNormalization ==
    (Returned("get_edgelist") /\ call.norm_type = "node") =>
        /\ call.weight_col = NONE =>
              \A g \in DOMAIN result.value :
                  FracEq(EdgeSum(result.value, OutEdges(result.value, g[1])), One)
        /\ call.weight_col # NONE => \A g \in DOMAIN result.value : IsShare(result.value[g])

\* C4 witness: a 'node' edge list by occurrence counts in which one source has
\* two outgoing edges.
C4_Witness ==
    /\ Returned("get_edgelist") /\ call.norm_type = "node" /\ call.weight_col = NONE
    /\ \E g, h \in DOMAIN result.value : g[1] = h[1] /\ g[2] # h[2]

\* C5 as stated: the adjacency matrix is indexed, on rows and on columns, by the
\* set of all distinct event names of the log.
C5_AdjacencyIndexedByAllEvents ==
    Returned("get_adjacency") =>
        /\ result.value.index = result.value.columns
        /\ result.value.index = DistinctEvents

----------------------------------------------------------------------------
\* Claims about get_step_matrix (checked under SpecStep)

ForwardMatrix == Returned("get_step_matrix") /\ call.reverse = <<>>

ReverseMatrix == Returned("get_step_matrix") /\ call.reverse # <<>>

\* C1 as stated: every column of a returned step matrix sums to 1 over the rows
\* left after pruning, also when thr > 0 pruned the rows that held its mass.
C1_EveryColumnSumsToOne ==
    Returned("get_step_matrix") =>
        \A c \in DOMAIN result.value.columns : FracEq(ColumnSum(result.value, c), One)

\* the values of a row do not decrease from left to right
NonDecreasing(values) ==
    \A c \in DOMAIN values : c + 1 \in DOMAIN values => ~FracLess(values[c + 1], values[c])

AccumulatedRows(piv) == {row \in DOMAIN piv.val : row.accumulated}

\* C6 as stated: in forward mode every 'Accumulated X' row of the returned
\* matrix is non-decreasing from left to right, for one or several targets, with
\* or without pruning.
C6_AccumulatedNonDecreasing_Returned ==
    ForwardMatrix =>
        \A row \in AccumulatedRows(result.value) : NonDecreasing(result.value.val[row])

\* C6 amended: in forward mode every 'Accumulated X' row is non-decreasing from
\* left to right before the final division of each column by its sum (for any
\* target_event_list, with or without pruning); in the returned matrix it is
\* non-decreasing when target_event_list names one target and thr = 0.
C6_AccumulatedNonDecreasing ==
    ForwardMatrix =>
        /\ LET piv == Assembled(log, retention_config, call.max_steps, call.reverse, call.thr)
           IN \A row \in AccumulatedRows(piv) : NonDecreasing(piv.val[row])
        /\ (Len(retention_config.target_event_list) = 1 /\ call.thr.num = 0) =>
              \A row \in AccumulatedRows(result.value) : NonDecreasing(result.value.val[row])

\* C6 witness: a returned forward matrix, one target, no pruning, whose
\* accumulated row grows from 0 at some column.
C6_Witness ==
    /\ ForwardMatrix /\ Len(retention_config.target_event_list) = 1 /\ call.thr.num = 0
    /\ \E row \in AccumulatedRows(result.value) : \E c \in DOMAIN result.value.columns :
          /\ c + 1 \in DOMAIN result.value.columns
          /\ FracEq(result.value.val[row][c], Zero)
          /\ FracLess(result.value.val[row][c], result.value.val[row][c + 1])

\* the 1-based position of row i among the rows of its entity sorted ascending
\* by timestamp, ties in row order
ChronologicalPosition(obj, i) ==
    1 + Cardinality({j \in DOMAIN obj : obj[j].user = obj[i].user /\ SortsBefore(obj, j, i)})

\* C7 as stated (checked under SpecStepTimed): in forward mode the rank of every event is its position among
\* its entity's events in ascending timestamp order, whatever the row order of
\* the log.
C7_RankIsChronologicalPosition ==
    (call.op = "get_step_matrix" /\ call.reverse = <<>>) =>
        \A i \in DOMAIN log : event_rank(log)[i] = ChronologicalPosition(log, i)

\* C8 as stated: in reverse mode the first column of a returned matrix is 'n'
\* and carries mass only on the rows of the selected targets: one selected target
\* has a row holding 1, two selected targets have rows that sum to 1, and every
\* other row holds 0.
C8_FirstColumnOnlyTargets ==
    ReverseMatrix =>
        LET m == result.value
            targets == {EventRow(e) : e \in Range(ReverseTargets(retention_config, call.reverse))}
        IN /\ m.columns[1] = ReverseLabel("n", 0)
           /\ \A row \in DOMAIN m.val \ targets : FracEq(m.val[row][1], Zero)
           /\ FracEq(FracSum([row \in DOMAIN m.val |-> m.val[row][1]], DOMAIN m.val \cap targets), One)
           /\ Len(call.reverse) = 1 => \A row \in targets : row \in DOMAIN m.val /\ FracEq(m.val[row][1], One)

\* a call of get_step_matrix with reverse = 'pos' on a log that holds no row of
\* the configured positive target event
ReversePosWithoutTarget ==
    /\ call.op = "get_step_matrix"
    /\ call.reverse = <<"pos">>
    /\ \A i \in DOMAIN log : log[i].event # retention_config.positive_target_event

\* C11: get_step_matrix with reverse = 'pos' on a log without the positive
\* target event raises an error whose message names that event, and returns no
\* matrix, whatever max_steps, sorting and thr are.
C11_ReversePosWithoutTargetRaises ==
    ReversePosWithoutTarget =>
        /\ result.raised = "ValueError"
        /\ result.message_names = retention_config.positive_target_event
        /\ "value" \notin DOMAIN result

\* C11 witness: the call was made on a log that has no positive target event
\* but does hold the negative one, and the error was raised.
C11_Witness ==
    /\ ReversePosWithoutTarget
    /\ \E i \in DOMAIN log : log[i].event = retention_config.negative_target_event
    /\ result.raised = "ValueError"

----------------------------------------------------------------------------
\* Claims about split_sessions (checked under SpecSess)

GapMode == Returned("split_sessions") /\ call.by_event = NONE

MarkerMode == Returned("split_sessions") /\ call.by_event # NONE

\* the ordinal in a row's session label
Ordinal(r) == r.session_id[3]

\* C2 as stated: in the returned table, for every entity and any row order of
\* the log, the session ordinals do not decrease along ascending timestamps, and
\* in gap mode the entity's chronologically first row has ordinal 0.
C2_OrdinalsNonDecreasingInTime ==
    Returned("split_sessions") =>
        LET out == result.value
        IN /\ \A a, b \in DOMAIN out :
                (out[a].user = out[b].user /\ out[a].ts < out[b].ts) => Ordinal(out[a]) <= Ordinal(out[b])
           /\ call.by_event = NONE =>
                \A a \in DOMAIN out :
                    (\A b \in DOMAIN out : out[b].user = out[a].user => out[a].ts <= out[b].ts)
                        => Ordinal(out[a]) = 0

\* the positions, in the log sorted by entity and time, of the events followed
\* by a gap greater than thresh before the entity's next event
Gaps(obj, thresh) ==
    LET df == get_shift(obj)
    IN {k \in DOMAIN df : df[k].next_ts # NaT /\ df[k].next_ts - df[k].ts > thresh}

\* the rows of the table out that hold this entity, event and timestamp
Matching(out, user, event, ts) ==
    {p \in DOMAIN out : out[p].user = user /\ out[p].event = event /\ out[p].ts = ts}

\* C9 as stated: in gap mode with eos_event given, every gap greater than thresh
\* between consecutive events of an entity gives exactly one row with event
\* eos_event, one second after the event before the gap and with that event's
\* session label; no other row is added; the event after the gap carries the
\* next ordinal.
C9_OneEosRowPerGap ==
    (GapMode /\ call.eos_event # NONE) =>
        LET out == result.value
            df == get_shift(log)
            gaps == Gaps(log, call.thresh)
        IN /\ \A k \in gaps :
                LET eos == Matching(out, df[k].user, call.eos_event, df[k].ts + 1)
                IN /\ Cardinality(eos) = 1
                   /\ \A p \in eos :
                        /\ \A q \in Matching(out, df[k].user, df[k].event, df[k].ts) :
                              out[p].session_id = out[q].session_id
                        /\ \A q \in Matching(out, df[k].user, df[k].next_event, df[k].next_ts) :
                              Ordinal(out[q]) = Ordinal(out[p]) + 1
           /\ Cardinality({p \in DOMAIN out : out[p].event = call.eos_event}) = Cardinality(gaps)

\* C10 (checked under SpecMarker): in marker mode the table has the rows of the log, in their order, and the
\* session label of every row is '<entity>_<n>', n being the number of rows of
\* the same entity up to and including that row whose event is by_event: the
\* marker row itself carries the incremented ordinal and the rows before the
\* entity's first marker carry 0.
C10_MarkerOrdinalCountsInclusive ==
    MarkerMode =>
        LET out == result.value
        IN /\ Len(out) = Len(log)
           /\ \A i \in DOMAIN out :
                /\ Row(out[i].user, out[i].event, out[i].ts) = log[i]
                /\ out[i].session_id =
                     SessionId(out[i].user,
                               Cardinality({j \in 1..i : out[j].user = out[i].user
                                                         /\ out[j].event = call.by_event}))

\* C10 witness: a marker-mode table in which an entity has a row before its
\* first marker, with ordinal 0, then the marker row, with ordinal 1, then a row
\* that is no marker and keeps ordinal 1.
C10_Witness ==
    /\ MarkerMode
    /\ \E i, j, k \in DOMAIN result.value :
          LET out == result.value
          IN /\ i < j /\ j < k
             /\ out[i].user = out[j].user /\ out[j].user = out[k].user
             /\ out[i].event # call.by_event /\ Ordinal(out[i]) = 0
             /\ out[j].event = call.by_event /\ Ordinal(out[j]) = 1
             /\ out[k].event # call.by_event /\ Ordinal(out[k]) = 1

\* the log without the rows whose event is eos_event
WithoutEos(obj, eos_event) == SelectSeq(obj, LAMBDA r : r.event # eos_event)

\* C12 as stated: in gap mode with eos_event given, the rows of the log whose
\* event is eos_event have no effect: the call returns a table, and that table is
\* one the same call returns on the log with those rows removed.
C12_EosRowsHaveNoEffect ==
    (call.op = "split_sessions" /\ call.by_event = NONE /\ call.thresh # NoThresh
        /\ call.eos_event # NONE) =>
        /\ result.raised = NONE
        /\ result \in split_sessions(WithoutEos(log, call.eos_event), NONE, call.thresh, call.eos_event)

====
